---- MODULE Spec2Model ----
(***************************************************************************)
(* Model of the image -> 3D conversion service of hunyuan3d-run:           *)
(*   src/main.py                  POST /upload_jewelry, GET /output/..     *)
(*   src/src/api/convert_api.py   POST /api/convert                        *)
(*   src/src/utils/local_2d_to_3d.py  Local2DTo3DConverter.convert         *)
(* Flask serves requests on concurrent threads (app.run, main.py:98), so   *)
(* every handler is a process whose steps interleave with the others.      *)
(* The filesystem is the only state the handlers share.                    *)
(***************************************************************************)
EXTENDS Integers, Sequences, FiniteSets, TLC

\* ---------------------------------------------------------------- bounds
\* requests in the model of the whole service (both POST endpoints)
NumReq == 1
\* concurrent /upload_jewelry jobs in the model of main.py alone
NumJobs == 2

\* ------------------------------------------------------------- variables
VARIABLES
    pc,              \* position of each request handler
    req,             \* the request: endpoint, 'images' field; whether convert()
                     \* is given a progress_callback (main.py:59 gives none)
    idx,             \* loop index (images of upload_jewelry, formats of /api/convert)
    saved_paths,     \* upload_jewelry: saved_paths
    job_id,          \* upload_jewelry: job_id; /api/convert: model_id
    temp_path,       \* /api/convert: temp_path
    engine_in,       \* convert(): image_batch, the bytes read from the input images
    output_files,    \* _save_mesh_outputs: output_files (formats saved)
    generated_files, \* /api/convert: generated_files (formats exported)
    exc,             \* str(e) of the exception being handled
    resp,            \* the HTTP response of each request
    fs,              \* files on disk: path -> bytes
    dirs,            \* directories on disk
    uuids,           \* number of uuid4() values drawn so far
    inputs,          \* paths of the uploaded input files of each request
    artifact,        \* bytes convert() wrote as the primary OBJ of each job
    lastGet,         \* the GET /output/<job_id>/<filename> being answered, if any
    converter,       \* ConvertAPI.converter: "loaded", or "None" when loading failed
    reported         \* the values convert() passed to its progress_callback, in order

\* the requests of the run
Reqs == DOMAIN pc

vars == <<pc, req, idx, saved_paths, job_id, temp_path, engine_in, output_files,
          generated_files, exc, resp, fs, dirs, uuids, inputs, artifact, lastGet,
          converter, reported>>

\* ----------------------------------------------------------- filesystem
NoJob == "none"
NoPath == <<>>

\* os.path.join(dir, name)
Join(dir, name) == Append(dir, name)

\* os.path.basename(path)
Basename(path) == path[Len(path)]

\* os.path.exists(path) for a file
Exists(path) == path \in DOMAIN fs

\* the path the operating system resolves: "." stays, ".." goes one up
RECURSIVE Canon(_)
Canon(path) ==
    IF path = <<>> THEN <<>>
    ELSE LET up == Canon(SubSeq(path, 1, Len(path) - 1))
             seg == path[Len(path)]
         IN CASE seg = "." -> up
              [] seg = ".." -> (IF up = <<>> THEN <<>> ELSE SubSeq(up, 1, Len(up) - 1))
              [] OTHER -> Append(up, seg)

\* os.path.isdir(path); the empty path is the working directory
IsDir(path) == Canon(path) = <<>> \/ Canon(path) \in dirs

\* os.path.isfile(path)
IsFile(path) == Canon(path) \in DOMAIN fs

\* os.path.exists(path) for a path that may hold ".." segments: every
\* directory stepped out of must exist
PathExists(path) ==
    /\ IsDir(path) \/ IsFile(path)
    /\ \A i \in 1..Len(path) : path[i] = ".." => IsDir(SubSeq(path, 1, i - 1))

\* dir is path or a directory above it
Inside(path, dir) ==
    Len(path) >= Len(dir) /\ SubSeq(path, 1, Len(dir)) = dir

\* open(path, 'wb').write(bytes) / FileStorage.save(path)
WriteFile(f, path, bytes) ==
    [p \in (DOMAIN f) \cup {path} |-> IF p = path THEN bytes ELSE f[p]]

\* os.remove(path)
RemoveFile(f, path) == [p \in (DOMAIN f) \ {path} |-> f[p]]

\* main.py:22  output_root = os.path.join(os.getcwd(), "output")
output_root == <<"output">>

\* main.py:42  upload_folder = os.path.join(app.static_folder, 'uploads')
upload_folder == <<"static", "uploads">>

\* os.getcwd(), and tempfile.gettempdir() for the paths that start with "tmp"
getcwd == "/app"

\* a path written with "/" before every segment
RECURSIVE PathText(_)
PathText(path) ==
    IF path = <<>> THEN ""
    ELSE PathText(SubSeq(path, 1, Len(path) - 1)) \o "/" \o path[Len(path)]

\* the absolute path the code holds: output_root and app.static_folder are
\* absolute (main.py:12-22), temporary files are below the temp directory
abspath(path) ==
    IF path # <<>> /\ path[1] = "tmp" THEN PathText(path)
    ELSE getcwd \o PathText(path)

\* str(e) of the OSError a failing file operation on path raises
OSError(strerror, path) == strerror \o ": '" \o abspath(path) \o "'"

\* tempfile.NamedTemporaryFile(delete=False, suffix='.png'): a fresh name
TempName(r) == <<"tmp", "tmp" \o ToString(r) \o ".png">>

\* str(uuid.uuid4()): the n-th value drawn; uuid4 values are taken as fresh
Uuid4(n) == "uuid" \o ToString(n)

\* bytes of the i-th image uploaded by request r (distinct per request)
ImageBytes(r, i) == 10 * r + i

\* _preprocess_images: the batch built from the bytes of every input image,
\* read in order (Image.open(img_path) for img_path in image_paths)
RECURSIVE Batch(_, _)
Batch(f, paths) ==
    IF paths = <<>> THEN 0
    ELSE 100 * Batch(f, SubSeq(paths, 1, Len(paths) - 1)) + f[paths[Len(paths)]]

\* save_obj / save_ply / _save_stl: the bytes written for a mesh, per format;
\* the mesh is a function of the image batch the pipeline was given
MeshBytes(fmt, batch) ==
    CASE fmt = "obj" -> 10000000 + batch
      [] fmt = "ply" -> 20000000 + batch
      [] fmt = "stl" -> 30000000 + batch

base_name == "generated_model"

NoResp == [code |-> 0, model_url |-> <<>>, error |-> ""]

Respond(r, code, url, err) ==
    resp' = [resp EXCEPT ![r] = [code |-> code, model_url |-> url, error |-> err]]

\* no GET is being answered.  route: the view function that answers;
\* path: the file whose content is sent; page: the template rendered;
\* status: the status of the job named in the URL when the GET is answered
NoGet == [route |-> "", job_id |-> NoJob, filename |-> "", code |-> 0, body |-> 0,
          path |-> NoPath, page |-> "", status |-> "none"]

\* bytes of main.py, the program's own source file
MainPyBytes == 7

\* ------------------------------------------------------------------ Init
\* the service after start-up, about to receive n requests
InitN(n) ==
    /\ pc = [r \in 1..n |-> "idle"]
    /\ req = [r \in 1..n |-> [kind |-> "none", images |-> <<>>, progress_callback |-> FALSE]]
    /\ idx = [r \in 1..n |-> 0]
    /\ saved_paths = [r \in 1..n |-> <<>>]
    /\ job_id = [r \in 1..n |-> NoJob]
    /\ temp_path = [r \in 1..n |-> NoPath]
    /\ engine_in = [r \in 1..n |-> 0]
    /\ output_files = [r \in 1..n |-> {}]
    /\ generated_files = [r \in 1..n |-> <<>>]
    /\ exc = [r \in 1..n |-> ""]
    /\ resp = [r \in 1..n |-> NoResp]
    /\ fs = [p \in {<<"main.py">>} |-> MainPyBytes]  \* started as: python main.py
    /\ dirs = {output_root}            \* main.py:23 os.makedirs(output_root)
    /\ uuids = 0
    /\ inputs = [r \in 1..n |-> {}]
    /\ artifact = [r \in 1..n |-> 0]
    /\ lastGet = NoGet
    /\ converter \in {"loaded", "None"}   \* convert_api.py:29 load_converter()
    /\ reported = [r \in 1..n |-> <<>>]

Init == InitN(NumReq)

\* the 'images' field of a request: the client file names, in order; the
\* empty list stands for a request without the field
ImageLists == {<<>>, <<"a.png">>, <<"a.png", "b.png">>}

\* A client sends POST /upload_jewelry.
submit_upload(r) ==
    /\ pc[r] = "idle"
    /\ \E imgs \in ImageLists :
          req' = [req EXCEPT ![r] = [kind |-> "upload", images |-> imgs,
                                     progress_callback |-> FALSE]]
    /\ pc' = [pc EXCEPT ![r] = "validate"]
    /\ lastGet' = NoGet
    /\ UNCHANGED <<idx, saved_paths, job_id, temp_path, engine_in, output_files,
                   generated_files, exc, resp, fs, dirs, uuids, inputs,
                   artifact, converter, reported>>

\* A client sends POST /upload_jewelry with one image; every client names
\* its file "a.png".
submit_job(r) ==
    /\ pc[r] = "idle"
    /\ req' = [req EXCEPT ![r] = [kind |-> "upload", images |-> <<"a.png">>,
                                  progress_callback |-> FALSE]]
    /\ pc' = [pc EXCEPT ![r] = "validate"]
    /\ lastGet' = NoGet
    /\ UNCHANGED <<idx, saved_paths, job_id, temp_path, engine_in, output_files,
                   generated_files, exc, resp, fs, dirs, uuids, inputs,
                   artifact, converter, reported>>

\* the 'images' field of a POST /api/convert: the handler takes images[0]
\* and reads no other image (convert_api.py:81)
ApiImageLists == {<<>>, <<"a.png">>}

\* A client sends POST /api/convert.
submit_api(r) ==
    /\ pc[r] = "idle"
    /\ \E imgs \in ApiImageLists :
          req' = [req EXCEPT ![r] = [kind |-> "api", images |-> imgs, progress_callback |-> FALSE]]
    /\ pc' = [pc EXCEPT ![r] = "validate"]
    /\ lastGet' = NoGet
    /\ UNCHANGED <<idx, saved_paths, job_id, temp_path, engine_in, output_files,
                   generated_files, exc, resp, fs, dirs, uuids, inputs,
                   artifact, converter, reported>>

\* ------------------------------------------------- POST /upload_jewelry
\* upload_validate changed to create the upload folder before validating
upload_validate_mkdir_first(r) ==
    /\ pc[r] = "validate" /\ req[r].kind = "upload"
    /\ dirs' = dirs \cup {<<"static">>, upload_folder}
    /\ IF req[r].images = <<>>
       THEN /\ Respond(r, 400, <<>>, "No images uploaded")
            /\ pc' = [pc EXCEPT ![r] = "done"]
            /\ UNCHANGED idx
       ELSE /\ idx' = [idx EXCEPT ![r] = 1]
            /\ pc' = [pc EXCEPT ![r] = "save"]
            /\ UNCHANGED resp
    /\ lastGet' = NoGet
    /\ UNCHANGED <<req, saved_paths, job_id, temp_path, engine_in, output_files,
                   generated_files, exc, fs, uuids, inputs, artifact, converter, reported>>

\* main.py:36-43  validation, then os.makedirs(upload_folder)
upload_validate(r) ==
    /\ pc[r] = "validate" /\ req[r].kind = "upload"
    /\ IF req[r].images = <<>>
       THEN /\ Respond(r, 400, <<>>, "No images uploaded")
            /\ pc' = [pc EXCEPT ![r] = "done"]
            /\ UNCHANGED <<idx, dirs>>
       ELSE /\ dirs' = dirs \cup {<<"static">>, upload_folder}
            /\ idx' = [idx EXCEPT ![r] = 1]
            /\ pc' = [pc EXCEPT ![r] = "save"]
            /\ UNCHANGED resp
    /\ lastGet' = NoGet
    /\ UNCHANGED <<req, saved_paths, job_id, temp_path, engine_in, output_files,
                   generated_files, exc, fs, uuids, inputs, artifact, converter, reported>>

\* main.py:46-49  one turn of the loop: img.save(save_path).  A failing save
\* is outside the try block: the exception leaves the handler and Flask
\* answers 500.
upload_save(r) ==
    /\ pc[r] = "save"
    /\ LET i == idx[r]
           save_path == Join(upload_folder, req[r].images[i])
       IN \/ /\ fs' = WriteFile(fs, save_path, ImageBytes(r, i))
             /\ saved_paths' = [saved_paths EXCEPT ![r] = Append(@, save_path)]
             /\ inputs' = [inputs EXCEPT ![r] = @ \cup {save_path}]
             /\ idx' = [idx EXCEPT ![r] = i + 1]
             /\ pc' = [pc EXCEPT ![r] =
                          IF i = Len(req[r].images) THEN "job" ELSE "save"]
             /\ UNCHANGED resp
          \/ /\ Respond(r, 500, <<>>, "Internal Server Error")
             /\ pc' = [pc EXCEPT ![r] = "done"]
             /\ UNCHANGED <<fs, saved_paths, inputs, idx>>
    /\ lastGet' = NoGet
    /\ UNCHANGED <<req, job_id, temp_path, engine_in, output_files,
                   generated_files, exc, dirs, uuids, artifact, converter, reported>>

\* main.py:52  job_output_dir = os.path.join(output_root, job_id)
job_output_dir(r) == Join(output_root, job_id[r])

\* main.py:52-57  job_id = id, the value str(uuid.uuid4()) returned;
\* os.makedirs(job_output_dir, exist_ok=True), which accepts a directory
\* that exists; converter = Local2DTo3DConverter(logger, output_root).
\* makedirs and the constructor (local_2d_to_3d.py:237-255) may raise into
\* the except block.
new_job(r, id) ==
    /\ pc[r] = "job"
    /\ job_id' = [job_id EXCEPT ![r] = id]
    /\ \/ /\ dirs' = dirs \cup {Join(output_root, id)}
          /\ pc' = [pc EXCEPT ![r] = "convert"]
          /\ UNCHANGED exc
       \/ /\ exc' = [exc EXCEPT ![r] =
                     OSError("[Errno 13] Permission denied", Join(output_root, id))]
          /\ pc' = [pc EXCEPT ![r] = "except"]
          /\ UNCHANGED dirs
       \/ /\ dirs' = dirs \cup {Join(output_root, id)}
          /\ exc' = [exc EXCEPT ![r] = "Pipeline loading failed: model folder not found"]
          /\ pc' = [pc EXCEPT ![r] = "except"]
    /\ lastGet' = NoGet
    /\ UNCHANGED <<req, idx, saved_paths, temp_path, engine_in, output_files,
                   generated_files, resp, fs, inputs, artifact, converter, reported>>

\* main.py:52-57 with a fresh uuid4 value
upload_new_job(r) ==
    /\ uuids' = uuids + 1
    /\ new_job(r, Uuid4(uuids + 1))

\* main.py:52-57 when uuid.uuid4() returns a value it returned before
upload_new_job_again(r) ==
    /\ \E id \in {Uuid4(n) : n \in 1..uuids} : new_job(r, id)
    /\ UNCHANGED uuids

\* ------------------------------------- Local2DTo3DConverter.convert
\* "if progress_callback: progress_callback(value, message)", for each of
\* the values in turn
progress_callback(r, values) ==
    reported' = [reported EXCEPT ![r] =
                    IF req[r].progress_callback THEN @ \o values ELSE @]

\* local_2d_to_3d.py:553-778  the values _generate_3d_mesh reports on its
\* way to a mesh
InferenceProgress == <<10, 30, 70, 90, 100>>

\* local_2d_to_3d.py:942-985  convert() is entered: it reports 5 and 10,
\* _preprocess_images reads the input images, _generate_3d_mesh runs the
\* pipeline and reports InferenceProgress.  Both may raise.  An exception
\* inside _generate_3d_mesh (after k of its reports) is reported as -1 there
\* (line 786) and again by convert() (line 1016); convert() re-raises as
\* RuntimeError("3D conversion failed: ...").
convert_infer(r) ==
    /\ pc[r] = "convert"
    /\ \/ /\ \A i \in 1..Len(saved_paths[r]) : Exists(saved_paths[r][i])
          /\ engine_in' = [engine_in EXCEPT ![r] = Batch(fs, saved_paths[r])]
          /\ progress_callback(r, <<5, 10>> \o InferenceProgress)
          /\ pc' = [pc EXCEPT ![r] = "save_obj"]
          /\ UNCHANGED exc
       \/ /\ exc' = [exc EXCEPT ![r] = "3D conversion failed: 3D generation failed"]
          /\ \/ progress_callback(r, <<5, 10, -1>>)
             \/ \E k \in 1..(Len(InferenceProgress) - 1) :
                   progress_callback(r, <<5, 10>> \o SubSeq(InferenceProgress, 1, k)
                                            \o <<-1, -1>>)
          /\ pc' = [pc EXCEPT ![r] = "raised"]
          /\ UNCHANGED engine_in
    /\ lastGet' = NoGet
    /\ UNCHANGED <<req, idx, saved_paths, job_id, temp_path, output_files,
                   generated_files, resp, fs, dirs, uuids, inputs, artifact, converter>>

\* local_2d_to_3d.py:987-988, 809-813  convert() reports 95, then
\* save_obj(obj_path, vertices, faces); a failure is reported as -1 by
\* convert() (line 1016)
save_obj(r) ==
    /\ pc[r] = "save_obj"
    /\ LET obj_path == Join(job_output_dir(r), base_name \o ".obj")
       IN \/ /\ fs' = WriteFile(fs, obj_path, MeshBytes("obj", engine_in[r]))
             /\ artifact' = [artifact EXCEPT ![r] = MeshBytes("obj", engine_in[r])]
             /\ output_files' = [output_files EXCEPT ![r] = @ \cup {"obj"}]
             /\ progress_callback(r, <<95>>)
             /\ pc' = [pc EXCEPT ![r] = "save_ply"]
             /\ UNCHANGED exc
          \/ /\ exc' = [exc EXCEPT ![r] =
                        "3D conversion failed: Failed to save mesh: "
                        \o OSError("[Errno 28] No space left on device", obj_path)]
             /\ progress_callback(r, <<95, -1>>)
             /\ pc' = [pc EXCEPT ![r] = "raised"]
             /\ UNCHANGED <<fs, artifact, output_files>>
    /\ lastGet' = NoGet
    /\ UNCHANGED <<req, idx, saved_paths, job_id, temp_path, engine_in,
                   generated_files, resp, dirs, uuids, inputs, converter>>

\* local_2d_to_3d.py:815-833, 994-1011  save_ply (a failure raises), then the
\* STL when the mesh has faces (a failure is logged and swallowed); then
\* convert() checks that the primary OBJ exists, reports 100 and returns its
\* path, or raises and reports -1.
save_ply_stl_return(r) ==
    /\ pc[r] = "save_ply"
    /\ LET ply_path == Join(job_output_dir(r), base_name \o ".ply")
           stl_path == Join(job_output_dir(r), base_name \o ".stl")
           obj_path == Join(job_output_dir(r), base_name \o ".obj")
           with_ply == WriteFile(fs, ply_path, MeshBytes("ply", engine_in[r]))
       IN \/ /\ \/ /\ fs' = WriteFile(with_ply, stl_path, MeshBytes("stl", engine_in[r]))
                   /\ output_files' = [output_files EXCEPT ![r] = @ \cup {"ply", "stl"}]
                \/ /\ fs' = with_ply
                   /\ output_files' = [output_files EXCEPT ![r] = @ \cup {"ply"}]
             /\ IF "obj" \in output_files[r] /\ Exists(obj_path)
                THEN /\ progress_callback(r, <<100>>)
                     /\ pc' = [pc EXCEPT ![r] = "returned"]
                     /\ UNCHANGED exc
                ELSE /\ exc' = [exc EXCEPT ![r] =
                         "3D conversion failed: Primary OBJ file was not created successfully"]
                     /\ progress_callback(r, <<-1>>)
                     /\ pc' = [pc EXCEPT ![r] = "raised"]
          \/ /\ exc' = [exc EXCEPT ![r] =
                        "3D conversion failed: Failed to save mesh: "
                        \o OSError("[Errno 28] No space left on device", ply_path)]
             /\ progress_callback(r, <<-1>>)
             /\ pc' = [pc EXCEPT ![r] = "raised"]
             /\ UNCHANGED <<fs, output_files>>
    /\ lastGet' = NoGet
    /\ UNCHANGED <<req, idx, saved_paths, job_id, temp_path, engine_in,
                   generated_files, resp, dirs, uuids, inputs, artifact, converter>>

\* main.py:59  model_path, the value convert() returned
model_path(r) == Join(job_output_dir(r), base_name \o ".obj")

\* final_model_path changed to the output root instead of the job folder
final_model_path_root(r) == Join(output_root, Basename(model_path(r)))

\* main.py:62-63  final_model_path
final_model_path(r) == Join(job_output_dir(r), Basename(model_path(r)))

\* shutil.move(src, dst)
MoveFile(f, src, dst) ==
    IF src = dst THEN f ELSE RemoveFile(WriteFile(f, dst, f[src]), src)

\* main.py:62-69  convert() returned: move the model into the job folder if
\* it is elsewhere, answer {"model_url": "/output/<job_id>/<model_filename>"}
upload_respond(r) ==
    /\ pc[r] = "returned"
    /\ fs' = IF model_path(r) # final_model_path(r)
             THEN MoveFile(fs, model_path(r), final_model_path(r))
             ELSE fs
    /\ Respond(r, 200, <<"output", job_id[r], Basename(model_path(r))>>, "")
    /\ pc' = [pc EXCEPT ![r] = "done"]
    /\ lastGet' = NoGet
    /\ UNCHANGED <<req, idx, saved_paths, job_id, temp_path, engine_in, output_files,
                   generated_files, exc, dirs, uuids, inputs, artifact, converter, reported>>

\* upload_except changed to put the job's model_url into the error answer
upload_except_with_url(r) ==
    /\ pc[r] \in {"except", "raised"}
    /\ Respond(r, 500, <<"output", job_id[r], base_name \o ".obj">>, exc[r])
    /\ pc' = [pc EXCEPT ![r] = "done"]
    /\ lastGet' = NoGet
    /\ UNCHANGED <<req, idx, saved_paths, job_id, temp_path, engine_in, output_files,
                   generated_files, exc, fs, dirs, uuids, inputs, artifact, converter, reported>>

\* upload_except changed to retry the conversion instead of answering
upload_except_retry(r) ==
    /\ pc[r] \in {"except", "raised"}
    /\ pc' = [pc EXCEPT ![r] = "convert"]
    /\ lastGet' = NoGet
    /\ UNCHANGED <<req, idx, saved_paths, job_id, temp_path, engine_in, output_files,
                   generated_files, exc, resp, fs, dirs, uuids, inputs, artifact,
                   converter, reported>>

\* upload_except changed to run also for an error raised after the 200 answer
upload_except_late(r) ==
    /\ pc[r] \in {"except", "raised", "done"}
    /\ resp[r].code \in {0, 200}
    /\ Respond(r, 500, <<>>, IF pc[r] = "done" THEN "late failure" ELSE exc[r])
    /\ pc' = [pc EXCEPT ![r] = "done"]
    /\ lastGet' = NoGet
    /\ UNCHANGED <<req, idx, saved_paths, job_id, temp_path, engine_in, output_files,
                   generated_files, exc, fs, dirs, uuids, inputs, artifact, converter, reported>>

\* main.py:71-73  except Exception as e: return {"error": str(e)}, 500
\* ("raised": the exception came out of convert(); "except": out of
\* os.makedirs or the converter's constructor)
upload_except(r) ==
    /\ pc[r] \in {"except", "raised"}
    /\ Respond(r, 500, <<>>, exc[r])
    /\ pc' = [pc EXCEPT ![r] = "done"]
    /\ lastGet' = NoGet
    /\ UNCHANGED <<req, idx, saved_paths, job_id, temp_path, engine_in, output_files,
                   generated_files, exc, fs, dirs, uuids, inputs, artifact, converter, reported>>

\* ----------------------------------------------------- POST /api/convert
\* convert_api.py:101  formats = ['obj', 'stl', 'ply']
formats == <<"obj", "stl", "ply">>

\* convert_api.py:74  output_dir = os.path.join(os.getcwd(), 'output')
output_dir == <<"output">>

\* convert_api.py:106-107  output_path of one format
output_path(r, fmt) == Join(output_dir, job_id[r] \o "." \o fmt)

\* convert_api.py:64-84  validation, os.makedirs(output_dir), model_id; the
\* temporary file is created and the first image is saved into it.  A
\* failing save is outside the try block: the exception leaves the handler
\* (Flask answers 500) and the created file stays.
convert_validate(r) ==
    /\ pc[r] = "validate" /\ req[r].kind = "api"
    /\ IF req[r].images = <<>>
       THEN /\ Respond(r, 400, <<>>, "Missing images in request")
            /\ pc' = [pc EXCEPT ![r] = "done"]
            /\ UNCHANGED <<dirs, uuids, job_id, temp_path, inputs, fs>>
       ELSE /\ dirs' = dirs \cup {output_dir}
            /\ uuids' = uuids + 1
            /\ job_id' = [job_id EXCEPT ![r] = Uuid4(uuids + 1)]
            /\ temp_path' = [temp_path EXCEPT ![r] = TempName(r)]
            /\ inputs' = [inputs EXCEPT ![r] = @ \cup {TempName(r)}]
            /\ \/ /\ fs' = WriteFile(fs, TempName(r), ImageBytes(r, 1))
                  /\ pc' = [pc EXCEPT ![r] = "a_try"]
                  /\ UNCHANGED resp
               \/ /\ fs' = WriteFile(fs, TempName(r), 0)
                  /\ Respond(r, 500, <<>>, "Internal Server Error")
                  /\ pc' = [pc EXCEPT ![r] = "done"]
    /\ lastGet' = NoGet
    /\ UNCHANGED <<req, idx, saved_paths, engine_in, output_files,
                   generated_files, exc, artifact, converter, reported>>

\* os.remove(temp_path) inside the try block of convert_2d_to_3d raises:
\* the except block runs
remove_raises(r) ==
    /\ exc' = [exc EXCEPT ![r] = OSError("[Errno 13] Permission denied", temp_path[r])]
    /\ pc' = [pc EXCEPT ![r] = "a_except"]
    /\ UNCHANGED <<fs, resp>>

\* convert_api.py:88-94  converter is None: remove the temp file, 503;
\* otherwise converter.convert(temp_path) is called
convert_call(r) ==
    /\ pc[r] = "a_try"
    /\ IF converter = "None"
       THEN \/ /\ fs' = RemoveFile(fs, temp_path[r])
               /\ Respond(r, 503, <<>>,
                          "3D model conversion is not available: model is not loaded.")
               /\ pc' = [pc EXCEPT ![r] = "done"]
               /\ UNCHANGED exc
            \/ remove_raises(r)
       ELSE /\ pc' = [pc EXCEPT ![r] = "a_converting"]
            /\ UNCHANGED <<fs, resp, exc>>
    /\ lastGet' = NoGet
    /\ UNCHANGED <<req, idx, saved_paths, job_id, temp_path, engine_in, output_files,
                   generated_files, dirs, uuids, inputs, artifact, converter, reported>>

\* convert_api.py:94-98  converter.convert(temp_path) ends: it returns a mesh,
\* returns None (temp file removed, 503) or raises (except block)
convert_return(r) ==
    /\ pc[r] = "a_converting"
    /\ \/ /\ Exists(temp_path[r])
          /\ engine_in' = [engine_in EXCEPT ![r] = fs[temp_path[r]]]
          /\ pc' = [pc EXCEPT ![r] = "a_export"]
          /\ UNCHANGED <<fs, resp, exc>>
       \/ /\ fs' = RemoveFile(fs, temp_path[r])
          /\ Respond(r, 503, <<>>, "Conversion failed.")
          /\ pc' = [pc EXCEPT ![r] = "done"]
          /\ UNCHANGED <<engine_in, exc>>
       \/ /\ remove_raises(r)
          /\ UNCHANGED engine_in
       \/ /\ exc' = [exc EXCEPT ![r] = "3D conversion failed"]
          /\ pc' = [pc EXCEPT ![r] = "a_except"]
          /\ UNCHANGED <<engine_in, fs, resp>>
    /\ lastGet' = NoGet
    /\ UNCHANGED <<req, idx, saved_paths, job_id, temp_path, output_files,
                   generated_files, dirs, uuids, inputs, artifact, converter, reported>>

\* how one mesh.export(output_path) can end: the file is written; it raises
\* and leaves a partly written file; it raises before writing
ExportOutcomes == {"ok", "partial", "raise"}

\* convert_api.py:105-121  the loop over formats, from position i: each
\* mesh.export(output_path) that succeeds adds its format to generated_files;
\* one that raises is caught and the loop goes on.  The result is the
\* filesystem and generated_files after the loop.
RECURSIVE export_loop(_, _, _, _, _)
export_loop(r, i, outcome, f, gen) ==
    IF i > Len(formats) THEN [fs |-> f, generated_files |-> gen]
    ELSE LET fmt == formats[i]
         IN CASE outcome[i] = "ok" ->
                   export_loop(r, i + 1, outcome,
                       WriteFile(f, output_path(r, fmt), MeshBytes(fmt, engine_in[r])),
                       Append(gen, fmt))
              [] outcome[i] = "partial" ->
                   export_loop(r, i + 1, outcome,
                       WriteFile(f, output_path(r, fmt), 0), gen)
              [] outcome[i] = "raise" ->
                   export_loop(r, i + 1, outcome, f, gen)

convert_export(r) ==
    /\ pc[r] = "a_export"
    /\ \E outcome \in [1..Len(formats) -> ExportOutcomes] :
          LET res == export_loop(r, 1, outcome, fs, <<>>)
          IN /\ fs' = res.fs
             /\ generated_files' = [generated_files EXCEPT ![r] = res.generated_files]
    /\ pc' = [pc EXCEPT ![r] = "a_finish"]
    /\ lastGet' = NoGet
    /\ UNCHANGED <<req, idx, saved_paths, job_id, temp_path, engine_in, output_files,
                   exc, resp, dirs, uuids, inputs, artifact, converter, reported>>

\* convert_api.py:111  file_url = f'/output/{output_filename}'
file_url(r, fmt) == <<"output", job_id[r] \o "." \o fmt>>

\* convert_api.py:103, 114-116  primary_model_url after the loop: OBJ when it
\* was generated, else the first generated format
RECURSIVE primary_model_url(_, _, _)
primary_model_url(r, gen, primary) ==
    IF gen = <<>> THEN primary
    ELSE primary_model_url(r, Tail(gen),
             IF Head(gen) = "obj" \/ primary = <<>>
             THEN file_url(r, Head(gen)) ELSE primary)

\* convert_api.py:123-138  no format generated: remove the temp file, 500;
\* otherwise remove the temp file and answer the model urls.  An os.remove
\* that raises leads into the except block.
convert_finish(r) ==
    /\ pc[r] = "a_finish"
    /\ \/ /\ fs' = RemoveFile(fs, temp_path[r])
          /\ IF generated_files[r] = <<>>
             THEN Respond(r, 500, <<>>, "Failed to generate any 3D model formats")
             ELSE Respond(r, 200, primary_model_url(r, generated_files[r], <<>>), "")
          /\ pc' = [pc EXCEPT ![r] = "done"]
          /\ UNCHANGED exc
       \/ remove_raises(r)
    /\ lastGet' = NoGet
    /\ UNCHANGED <<req, idx, saved_paths, job_id, temp_path, engine_in, output_files,
                   generated_files, dirs, uuids, inputs, artifact, converter, reported>>

\* convert_api.py:140-153  except: remove the temp file, remove the model
\* files of this request, 500 with str(e) as 'details'.  An os.remove(temp_path)
\* that raises here leaves the handler: Flask answers 500.
convert_except(r) ==
    /\ pc[r] = "a_except"
    /\ \/ /\ fs' = [p \in (DOMAIN fs) \ ({temp_path[r]} \cup
                          {output_path(r, formats[i]) : i \in 1..Len(formats)}) |-> fs[p]]
          /\ Respond(r, 500, <<>>, "Failed to generate 3D model; details: " \o exc[r])
       \/ /\ Respond(r, 500, <<>>, "Internal Server Error")
          /\ UNCHANGED fs
    /\ pc' = [pc EXCEPT ![r] = "done"]
    /\ lastGet' = NoGet
    /\ UNCHANGED <<req, idx, saved_paths, job_id, temp_path, engine_in, output_files,
                   generated_files, exc, dirs, uuids, inputs, artifact, converter, reported>>

\* ------------------------------------------------------------ job status
\* The code keeps no status field: the status of a job is the position of
\* the handler that runs it.  queued: the id is drawn and convert() is not
\* yet entered; running: convert() is entered, or the handler is past it or
\* in its except block and has not answered; finished: answered 200;
\* failed: answered with an error.
JobStatus(r) ==
    IF job_id[r] = NoJob THEN "none"
    ELSE IF pc[r] = "done"
         THEN (IF resp[r].code = 200 THEN "finished" ELSE "failed")
    ELSE IF pc[r] \in {"convert", "a_try"} THEN "queued"
    ELSE "running"

\* the job a job id names
StatusOf(jid) ==
    IF \E r \in Reqs : job_id[r] = jid
    THEN JobStatus(CHOOSE r \in Reqs : job_id[r] = jid)
    ELSE "none"

\* ------------------------------------- GET /output/<job_id>/<filename>
\* the job ids a client can have learnt: those drawn so far
JobIds == {Uuid4(n) : n \in 1..uuids}
OutputNames == {base_name \o ".obj", base_name \o ".ply"}

\* the (job_id, filename) pairs of the GET /output/.. requests: the output
\* files of the jobs, and URLs with a ".." segment.  The route accepts any
\* segment without "/" for <job_id> and for <filename>.
OutputRequests ==
    (JobIds \X OutputNames) \cup {<<"..", "main.py">>}
        \cup ((JobIds \cap {Uuid4(1)}) \X {".."})

\* how many levels below its start a relative path ends
RECURSIVE Depth(_)
Depth(names) ==
    IF names = <<>> THEN 0
    ELSE Depth(SubSeq(names, 1, Len(names) - 1))
         + (CASE names[Len(names)] = ".." -> -1
              [] names[Len(names)] = "." -> 0
              [] OTHER -> 1)

\* werkzeug safe_join(directory, filename), as send_from_directory calls it:
\* no path (NotFound) for a filename whose normal form starts with ".."; the
\* filename is given by its segments
safe_join(directory, names) ==
    IF \E i \in 1..Len(names) : Depth(SubSeq(names, 1, i)) < 0
    THEN NoPath ELSE directory \o names

\* send_from_directory(directory, filename): the file safe_join names when
\* it is a regular file, else NotFound
send_from_directory(directory, names) ==
    LET path == safe_join(directory, names)
    IN IF path # NoPath /\ IsFile(path) THEN Canon(path) ELSE NoPath

\* main.py:76-83  404 unless os.path.exists(file_path), else
\* send_from_directory(job_output_dir, filename)
serve_output_model(jid, filename) ==
    /\ lastGet = NoGet
    /\ LET dir == Join(output_root, jid)
           file_path == Join(dir, filename)
           sent == IF PathExists(file_path)
                   THEN send_from_directory(dir, <<filename>>) ELSE NoPath
       IN lastGet' = [route |-> "serve_output_model",
                      job_id |-> jid, filename |-> filename,
                      code |-> IF sent # NoPath THEN 200 ELSE 404,
                      body |-> IF sent # NoPath THEN fs[sent] ELSE 0,
                      path |-> sent, page |-> "",
                      status |-> StatusOf(jid)]
    /\ UNCHANGED <<pc, req, idx, saved_paths, job_id, temp_path, engine_in,
                   output_files, generated_files, exc, resp, fs, dirs, uuids,
                   inputs, artifact, converter, reported>>

\* -------------------------------------------------------- GET /<path>
\* main.py:21  app.static_folder
static_folder == <<"static">>

\* the URLs a client polls for the status of a job: /status/<id>, for the
\* ids drawn so far and for an id no submission returned
UnknownId == "uuid0"
StatusPaths == {<<"status", jid>> : jid \in JobIds \cup {UnknownId}}

\* main.py:86-92  serve_spa, the catch-all route: a file of the static
\* folder when the path names one, else render_template('index.html'), the
\* front-end page (templates/index.html is part of the deployment).  No
\* route of the service is more specific for /status/<id>.
serve_spa(path) ==
    /\ lastGet = NoGet
    /\ LET static_path == static_folder \o path
           static == path # <<>> /\ PathExists(static_path)
           sent == IF static THEN send_from_directory(static_folder, path)
                   ELSE NoPath
           polled == IF Len(path) = 2 /\ path[1] = "status" THEN path[2] ELSE NoJob
       IN lastGet' = [route |-> "serve_spa",
                      job_id |-> polled,
                      filename |-> "",
                      code |-> IF static /\ sent = NoPath THEN 404 ELSE 200,
                      body |-> IF sent # NoPath THEN fs[sent] ELSE 0,
                      path |-> sent,
                      page |-> IF static THEN "" ELSE "index.html",
                      status |-> StatusOf(polled)]
    /\ UNCHANGED <<pc, req, idx, saved_paths, job_id, temp_path, engine_in,
                   output_files, generated_files, exc, resp, fs, dirs, uuids,
                   inputs, artifact, converter, reported>>

\* the response of the GET being answered is sent
get_respond ==
    /\ lastGet # NoGet
    /\ lastGet' = NoGet
    /\ UNCHANGED <<pc, req, idx, saved_paths, job_id, temp_path, engine_in,
                   output_files, generated_files, exc, resp, fs, dirs, uuids,
                   inputs, artifact, converter, reported>>

\* ------------------------------------------------------------------ Next
Handler(r) ==
    \/ upload_validate(r)
    \/ upload_save(r)
    \/ upload_new_job(r)
    \/ convert_infer(r)
    \/ save_obj(r)
    \/ save_ply_stl_return(r)
    \/ upload_respond(r)
    \/ upload_except(r)
    \/ convert_validate(r)
    \/ convert_call(r)
    \/ convert_return(r)
    \/ convert_export(r)
    \/ convert_finish(r)
    \/ convert_except(r)

\* the whole service.  lastGet holds one GET at a time: a GET reads the disk
\* and changes nothing, so the GETs are taken one after the other.
Next ==
    \/ \E r \in Reqs : submit_upload(r)
    \/ \E r \in Reqs : submit_api(r)
    \/ \E r \in Reqs : upload_validate(r)
    \/ \E r \in Reqs : upload_save(r)
    \/ \E r \in Reqs : upload_new_job(r)
    \/ \E r \in Reqs : convert_infer(r)
    \/ \E r \in Reqs : save_obj(r)
    \/ \E r \in Reqs : save_ply_stl_return(r)
    \/ \E r \in Reqs : upload_respond(r)
    \/ \E r \in Reqs : upload_except(r)
    \/ \E r \in Reqs : convert_validate(r)
    \/ \E r \in Reqs : convert_call(r)
    \/ \E r \in Reqs : convert_return(r)
    \/ \E r \in Reqs : convert_export(r)
    \/ \E r \in Reqs : convert_finish(r)
    \/ \E r \in Reqs : convert_except(r)
    \/ \E get \in OutputRequests : serve_output_model(get[1], get[2])
    \/ \E path \in StatusPaths \cup {<<"uploads", "a.png">>} : serve_spa(path)
    \/ get_respond

Spec == Init /\ [][Next]_vars

\* main.py alone: concurrent /upload_jewelry jobs and GET /output/..
JobsInit == InitN(NumJobs) /\ converter = "None"

JobsNext ==
    \/ \E r \in Reqs : submit_job(r)
    \/ \E r \in Reqs : upload_validate(r)
    \/ \E r \in Reqs : upload_save(r)
    \/ \E r \in Reqs : upload_new_job(r)
    \/ \E r \in Reqs : convert_infer(r)
    \/ \E r \in Reqs : save_obj(r)
    \/ \E r \in Reqs : save_ply_stl_return(r)
    \/ \E r \in Reqs : upload_respond(r)
    \/ \E r \in Reqs : upload_except(r)
    \/ \E get \in OutputRequests : serve_output_model(get[1], get[2])
    \/ \E path \in StatusPaths \cup {<<"uploads", "a.png">>} : serve_spa(path)
    \/ get_respond

JobsSpec == JobsInit /\ [][JobsNext]_vars

\* convert_api.py alone: concurrent /api/convert jobs, converter loaded
ApiInit == InitN(NumJobs) /\ converter = "loaded"

ApiNext ==
    \/ \E r \in Reqs : submit_api(r)
    \/ \E r \in Reqs : convert_validate(r)
    \/ \E r \in Reqs : convert_call(r)
    \/ \E r \in Reqs : convert_return(r)
    \/ \E r \in Reqs : convert_export(r)
    \/ \E r \in Reqs : convert_finish(r)
    \/ \E r \in Reqs : convert_except(r)

ApiSpec == ApiInit /\ [][ApiNext]_vars

\* A caller of convert(images, job_output_dir, progress_callback) that passes
\* a progress_callback (local_2d_to_3d.py:942): the images exist on disk and
\* the output directory is the caller's own.
call_convert(r) ==
    /\ pc[r] = "idle"
    /\ \E imgs \in ImageLists \ {<<>>} :
          LET paths == [i \in 1..Len(imgs) |-> <<"in" \o ToString(r), imgs[i]>>]
              names == {paths[i] : i \in 1..Len(imgs)}
          IN /\ req' = [req EXCEPT ![r] = [kind |-> "convert", images |-> imgs,
                                           progress_callback |-> TRUE]]
             /\ saved_paths' = [saved_paths EXCEPT ![r] = paths]
             /\ fs' = [q \in (DOMAIN fs) \cup names |->
                          IF q \in names
                          THEN ImageBytes(r, CHOOSE i \in 1..Len(imgs) : paths[i] = q)
                          ELSE fs[q]]
    /\ uuids' = uuids + 1
    /\ job_id' = [job_id EXCEPT ![r] = Uuid4(uuids + 1)]
    /\ dirs' = dirs \cup {Join(output_root, Uuid4(uuids + 1))}
    /\ pc' = [pc EXCEPT ![r] = "convert"]
    /\ lastGet' = NoGet
    /\ UNCHANGED <<idx, temp_path, engine_in, output_files, generated_files, exc,
                   resp, inputs, artifact, converter, reported>>

\* convert() alone, called with a progress_callback
ProgressInit == InitN(NumJobs) /\ converter = "None"

ProgressNext ==
    \/ \E r \in Reqs : call_convert(r)
    \/ \E r \in Reqs : convert_infer(r)
    \/ \E r \in Reqs : save_obj(r)
    \/ \E r \in Reqs : save_ply_stl_return(r)

ProgressSpec == ProgressInit /\ [][ProgressNext]_vars

\* main.py alone, uuid4 not taken as fresh: the id of a job may be one that
\* an earlier job was given
DupInit == InitN(NumJobs) /\ converter = "None"

DupNext ==
    \/ \E r \in Reqs : submit_job(r)
    \/ \E r \in Reqs : upload_validate(r)
    \/ \E r \in Reqs : upload_save(r)
    \/ \E r \in Reqs : upload_new_job(r)
    \/ \E r \in Reqs : upload_new_job_again(r)
    \/ \E r \in Reqs : convert_infer(r)
    \/ \E r \in Reqs : save_obj(r)
    \/ \E r \in Reqs : save_ply_stl_return(r)
    \/ \E r \in Reqs : upload_respond(r)
    \/ \E r \in Reqs : upload_except(r)

DupSpec == DupInit /\ [][DupNext]_vars

\* the submission handlers alone (GET /output/.. reads the disk and changes
\* nothing a submission handler reads)
WorkNext ==
    \/ \E r \in Reqs : submit_upload(r)
    \/ \E r \in Reqs : submit_api(r)
    \/ \E r \in Reqs : upload_validate(r)
    \/ \E r \in Reqs : upload_save(r)
    \/ \E r \in Reqs : upload_new_job(r)
    \/ \E r \in Reqs : convert_infer(r)
    \/ \E r \in Reqs : save_obj(r)
    \/ \E r \in Reqs : save_ply_stl_return(r)
    \/ \E r \in Reqs : upload_respond(r)
    \/ \E r \in Reqs : upload_except(r)
    \/ \E r \in Reqs : convert_validate(r)
    \/ \E r \in Reqs : convert_call(r)
    \/ \E r \in Reqs : convert_return(r)
    \/ \E r \in Reqs : convert_export(r)
    \/ \E r \in Reqs : convert_finish(r)
    \/ \E r \in Reqs : convert_except(r)

\* Every handler thread keeps being scheduled, and every call it makes
\* (convert() included) returns or raises.
FairSpec == Init /\ [][WorkNext]_vars /\ \A r \in 1..NumReq : WF_vars(Handler(r))

TypeOK ==
    /\ pc \in [Reqs -> STRING]
    /\ uuids \in 0..Cardinality(Reqs)
    /\ \A r \in Reqs : resp[r].code \in {0, 200, 400, 500, 503}

\* ============================================================== claims
Terminal == {"finished", "failed"}

Rank(status) ==
    CASE status = "none" -> 0
      [] status = "queued" -> 1
      [] status = "running" -> 2
      [] status \in Terminal -> 3

\* C1: the status of a job, as any reader can observe it between two steps,
\* never moves down in the order queued < running < {finished, failed}.
C1_StatusNeverRegresses ==
    [][\A r \in Reqs : Rank(JobStatus(r)') >= Rank(JobStatus(r))]_vars

\* a reader fetched from a job while its conversion was running
C1_Witness ==
    /\ lastGet.status = "running"
    /\ \E r \in Reqs : job_id[r] = lastGet.job_id /\ pc[r] = "save_ply"

C3_InputsGoneWhenTerminal ==
    \A r \in Reqs :
        JobStatus(r) \in Terminal => \A p \in inputs[r] : ~Exists(p)

\* C4: the step by which a handler leaves (on any exit path) ends with the
\* job's input files deleted: the deletion is done by then and nothing of
\* the handler follows it.
C4_CleanupIsLastAction ==
    [][\A r \in Reqs :
          (job_id[r]' # NoJob /\ pc[r] # "done" /\ pc[r]' = "done")
              => \A p \in inputs[r] : p \notin DOMAIN fs']_vars

\* convert() of the job has returned or raised
ConvertEnded(r) == pc[r] \in {"returned", "raised", "a_export", "a_finish", "a_except"}

\* C5: the response to a valid submission is sent before convert() returns:
\* no response is sent from a state in which convert() has ended.
C5_ResponseBeforeConvertReturns ==
    [][\A r \in Reqs :
          (resp[r].code = 0 /\ resp[r]'.code # 0) => ~ConvertEnded(r)]_vars

\* C6: the step that answers a submission without files answers 400 and
\* changes nothing else: no id is drawn, no file or directory is created,
\* and the handler ends without calling convert().
C6_NoFilesRejectedWithoutEffect ==
    [][\A r \in Reqs :
          (pc[r] = "validate" /\ req[r].images = <<>> /\ pc[r]' # "validate")
              => /\ resp[r]'.code = 400
                 /\ pc[r]' = "done"
                 /\ UNCHANGED <<fs, dirs, uuids, job_id, temp_path, inputs,
                                saved_paths, engine_in, output_files,
                                generated_files, artifact>>]_vars

\* a request without files has been answered 400, and no job exists for it
C6_Witness ==
    \E r \in Reqs : resp[r].code = 400 /\ pc[r] = "done" /\ job_id[r] = NoJob

\* C7: under fair scheduling every job that was given an id ends finished
\* or failed, and a failed job carries a non-empty error message.
C7_EveryJobTerminates ==
    /\ \A r \in 1..NumReq : (job_id[r] # NoJob) ~> (JobStatus(r) \in Terminal)
    /\ [](\A r \in 1..NumReq : JobStatus(r) = "failed" => resp[r].error # "")

\* a job failed after convert() raised, and its response names the error
C7_Witness ==
    \E r \in Reqs :
        /\ JobStatus(r) = "failed" /\ req[r].kind = "upload"
        /\ resp[r].code = 500 /\ resp[r].error = exc[r] /\ exc[r] # ""

\* C9: GET /output/<job_id>/<filename> answers 404 whenever the job is not
\* finished.
C9_NotFoundUnlessFinished ==
    (lastGet.route = "serve_output_model" /\ lastGet.status # "finished")
        => lastGet.code = 404

JobDir(jid) == Join(output_root, jid)

\* C11: GET /output/<job_id>/<filename> sends only a file that lies inside
\* the output directory of the job named in the URL, itself a directory
\* directly below the output root; a URL whose resolved path leaves that
\* directory is not answered with a file.
C11_ServedFileInsideJobDir ==
    (lastGet.route = "serve_output_model" /\ lastGet.code = 200)
        => /\ Canon(JobDir(lastGet.job_id)) = JobDir(lastGet.job_id)
           /\ Inside(lastGet.path, JobDir(lastGet.job_id))
           /\ lastGet.path # JobDir(lastGet.job_id)

\* a submission was answered with this job id
Answered(jid) == \E r \in Reqs : job_id[r] = jid /\ pc[r] = "done" /\ resp[r].code = 200

\* C12: GET /status/<id> is answered 404 for every id that no earlier
\* successful submission returned.
C12_UnknownStatusIs404 ==
    (lastGet.route = "serve_spa" /\ lastGet.job_id # NoJob
        /\ ~Answered(lastGet.job_id)) => lastGet.code = 404

\* C13: the job exists, queued or running, in the state the response with
\* its id leaves (where an immediate poll is answered), and no GET
\* /status/<id> for an answered id is answered 404.
C13_AnsweredJobIsPollable ==
    [][/\ \A r \in Reqs :
             (resp[r].code = 0 /\ resp[r]'.code = 200)
                 => JobStatus(r)' \in {"queued", "running"}
       /\ (lastGet'.route = "serve_spa" /\ lastGet'.job_id # NoJob
             /\ Answered(lastGet'.job_id)) => lastGet'.code # 404]_vars

\* C14: a response carries a model_url only when the job is finished and,
\* for a job, an error only when the job is failed.
C14_UrlOnlyFinishedErrorOnlyFailed ==
    \A r \in Reqs :
        /\ resp[r].model_url # <<>> => JobStatus(r) = "finished"
        /\ (job_id[r] # NoJob /\ resp[r].error # "") => JobStatus(r) = "failed"

\* a job has finished: its response carries the model_url and no error
C14_Witness ==
    \E r \in Reqs :
        /\ JobStatus(r) = "finished"
        /\ resp[r].model_url # <<>> /\ resp[r].error = ""

\* C15: every submission with at least one file is answered 202, and the
\* model_url of the answer is built from the job id of that submission.
\* (The responses of the code hold no status_url.)
C15_ValidSubmissionAccepted ==
    \A r \in Reqs :
        (pc[r] = "done" /\ req[r].images # <<>>)
            => /\ resp[r].code = 202
               /\ Len(resp[r].model_url) >= 2
               /\ resp[r].model_url[2] = job_id[r]

\* the directory a job's handler writes its output files into
OutputDirOf(r) == IF req[r].kind = "api" THEN output_dir ELSE job_output_dir(r)

\* the output files written for a job
OwnOutputs(r) ==
    IF req[r].kind = "api"
    THEN {output_path(r, formats[i]) : i \in 1..Len(formats)}
    ELSE {Join(job_output_dir(r), base_name \o "." \o formats[i]) : i \in 1..Len(formats)}

\* C16: concurrent jobs have distinct ids, and every file below the output
\* directory of a job was written for that job.  (That each job ends is C7.)
C16_OutputDirHoldsOwnFilesOnly ==
    /\ \A r1, r2 \in Reqs :
          (r1 # r2 /\ job_id[r1] # NoJob) => job_id[r1] # job_id[r2]
    /\ \A r \in Reqs : job_id[r] # NoJob =>
          \A p \in DOMAIN fs : Inside(p, OutputDirOf(r)) => p \in OwnOutputs(r)

\* the bytes of the images a request uploaded, as _preprocess_images
\* batches them
RECURSIVE OwnBatch(_, _)
OwnBatch(r, n) == IF n = 0 THEN 0 ELSE 100 * OwnBatch(r, n - 1) + ImageBytes(r, n)

\* C17: no two jobs hold the same input file path, and the batch convert()
\* of a job has read is made of the bytes uploaded in that job's request.
C17_EngineReadsOwnUpload ==
    /\ \A r1, r2 \in Reqs : r1 # r2 => inputs[r1] \cap inputs[r2] = {}
    /\ \A r \in Reqs :
          pc[r] \in {"save_obj", "save_ply", "returned", "a_export", "a_finish"}
              => engine_in[r] = OwnBatch(r, IF req[r].kind = "api" THEN 1
                                            ELSE Len(saved_paths[r]))

\* an exception left the view function: Flask's own handler answered
Escaped(r) == pc[r] = "done" /\ resp[r].error = "Internal Server Error"

\* C18: no failure while the handler works on the files of a submission
\* leaves the handler as an unhandled exception.
C18_NoFailureEscapes == \A r \in Reqs : ~Escaped(r)

\* sub occurs in msg
Contains(msg, sub) ==
    \E i \in 1..(Len(msg) - Len(sub) + 1) : SubSeq(msg, i, i + Len(sub) - 1) = sub

\* the text names a path below the working or the temp directory
LeaksPath(msg) == Contains(msg, getcwd \o "/") \/ Contains(msg, "/tmp/")

\* C19: no response holds an internal filesystem path.
C19_NoPathInResponse == \A r \in Reqs : ~LeaksPath(resp[r].error)

\* C20: a file or directory below the output root, once created, exists in
\* every later state.
C20_OutputNeverDeleted ==
    [][/\ \A p \in DOMAIN fs : Inside(p, output_root) => p \in DOMAIN fs'
       /\ \A d \in dirs : Inside(d, output_root) => d \in dirs']_vars

\* the progress of a job: the last value reported for it (no value: none)
NoProgress == -2
progress(r) == IF reported[r] = <<>> THEN NoProgress ELSE reported[r][Len(reported[r])]

\* C21: the step that makes an /upload_jewelry job finished finds the path
\* convert() returned naming an existing, non-empty file inside the job's
\* own output directory, names that file in the response, and leaves the
\* job's progress at 100.
C21_FinishedOnlyWithArtifact ==
    [][\A r \in Reqs :
          (req[r].kind = "upload" /\ JobStatus(r) # "finished"
              /\ JobStatus(r)' = "finished")
              => /\ pc[r] = "returned"
                 /\ model_path(r) \in DOMAIN fs' /\ fs'[model_path(r)] # 0
                 /\ Inside(model_path(r), job_output_dir(r))
                 /\ model_path(r) # job_output_dir(r)
                 /\ resp[r]'.model_url = model_path(r)
                 /\ progress(r)' = 100]_vars

\* convert() of the job raised, or returned None to /api/convert
EngineFailed(r) ==
    \/ Contains(exc[r], "3D conversion failed")
    \/ resp[r].error = "Conversion failed."

\* C22: a job whose convert() failed is, once its handler has ended, failed
\* with a non-empty error, and none of its input files exists any more.
C22_EngineFailureFailsJobAndCleans ==
    \A r \in Reqs :
        (pc[r] = "done" /\ EngineFailed(r))
            => /\ JobStatus(r) = "failed"
               /\ resp[r].error # ""
               /\ \A q \in inputs[r] : ~Exists(q)

\* C23: the values convert() reports for one job are in 0..100 and none is
\* smaller than a value reported before it.
C23_ProgressInRangeAndMonotone ==
    \A r \in Reqs :
        \A i \in 1..Len(reported[r]) :
            /\ reported[r][i] \in 0..100
            /\ \A j \in 1..i : reported[r][j] <= reported[r][i]

\* what a client can learn of a job: the record of the job
JobRecord(r) ==
    [id |-> job_id[r], status |-> JobStatus(r), progress |-> progress(r),
     model_url |-> resp[r].model_url, error |-> resp[r].error]

\* C24: once a job has its id, no step of an endpoint changes its record.
\* Every step of the service is a step of a view function (upload_jewelry,
\* convert_2d_to_3d, serve_output_model, serve_spa): the code starts no
\* worker.
C24_NoEndpointChangesRecord ==
    [][\A r \in Reqs : job_id[r] # NoJob => JobRecord(r)' = JobRecord(r)]_vars

\* C26: a job is not created under an id that another job holds: the step
\* that draws such an id fails and leaves the disk, and with it the other
\* job's directory, as it was.
C26_DuplicateIdRejected ==
    [][\A r \in Reqs :
          (/\ job_id[r] = NoJob /\ job_id[r]' # NoJob
           /\ \E r2 \in Reqs \ {r} : job_id[r2] = job_id[r]')
              => (pc[r]' = "except" /\ dirs' = dirs /\ fs' = fs)]_vars

\* the handler of /api/convert has ended, after it created its temp file
ApiEnded(r) == req[r].kind = "api" /\ pc[r] = "done" /\ temp_path[r] # NoPath

\* os.remove(temp_path) was called in the try block, raised, and was called
\* again in the except block
RemovedTwice(r) == exc[r] = OSError("[Errno 13] Permission denied", temp_path[r])

\* C27: when the /api/convert handler has ended, its temp file is gone and
\* os.remove(temp_path) was not called a second time.
C27_TempFileRemovedOnce ==
    \A r \in Reqs :
        ApiEnded(r) => (~Exists(temp_path[r]) /\ ~RemovedTwice(r))

\* C28: when /api/convert has answered 500 or 503, no <model_id>.obj, .stl or
\* .ply of the request exists in the output directory, whole or in part.
C28_ErrorLeavesNoModelFile ==
    \A r \in Reqs :
        (ApiEnded(r) /\ resp[r].code \in {500, 503})
            => \A q \in OwnOutputs(r) : ~Exists(q)

\* the formats whose file is on disk as mesh.export writes it
Exported(r) ==
    {formats[i] : i \in {k \in 1..Len(formats) :
        /\ Exists(output_path(r, formats[k]))
        /\ fs[output_path(r, formats[k])] = MeshBytes(formats[k], engine_in[r])}}

\* the first of obj, stl, ply that is in the set
FirstOf(fmts) == formats[CHOOSE i \in 1..Len(formats) :
                    formats[i] \in fmts /\ \A j \in 1..(i - 1) : formats[j] \notin fmts]

\* C29: after the export loop generated_files, the 'formats' of the
\* response, holds exactly the formats whose export succeeded; the request
\* is then answered 200 with the OBJ url, or the url of the first exported
\* format when there is no OBJ, and 500 when no export succeeded.
C29_ResponseListsExportedFormats ==
    \A r \in Reqs :
        LET gen == {generated_files[r][i] : i \in 1..Len(generated_files[r])}
        IN /\ pc[r] = "a_finish" => gen = Exported(r)
           /\ (ApiEnded(r) /\ engine_in[r] # 0) =>
                 IF gen = {} THEN resp[r].code = 500
                 ELSE /\ resp[r].code = 200
                      /\ resp[r].model_url =
                            file_url(r, IF "obj" \in gen THEN "obj" ELSE FirstOf(gen))

\* C30: with the converter not loaded, a POST /api/convert with an image
\* ends answered 503, convert() not called, no model file written and the
\* temp file gone.
C30_NoConverterAnswers503 ==
    \A r \in Reqs :
        (converter = "None" /\ req[r].kind = "api" /\ req[r].images # <<>>
            /\ pc[r] = "done")
            => /\ resp[r].code = 503
               /\ engine_in[r] = 0
               /\ \A q \in OwnOutputs(r) : ~Exists(q)
               /\ ~Exists(temp_path[r])

====
